---- MODULE Spec2Model ----
(***************************************************************************)
(* Model of the deletion probes of pkg/security/ebpf/c/rmdir.h:            *)
(*   SYSCALL_KPROBE0(rmdir)            the Entry probe                     *)
(*   kprobe/security_inode_rmdir       the IdentityResolution probe        *)
(*   SYSCALL_KRETPROBE(rmdir)          the Exit probe                      *)
(* Every probe runs to completion on the CPU of its thread, so each probe  *)
(* is one action.  The collaborators the header includes from elsewhere    *)
(* (syscall cache, discard filter, path resolution, inode cache, revision  *)
(* counters, event sink) are modelled by their contract; what a probe      *)
(* asked of them is recorded in the report of the step, last.              *)
(***************************************************************************)
EXTENDS Integers, Sequences, FiniteSets

\* ------------------------------------------------------------------ bounds
MaxOps == 2      \* deletion syscalls entered in one behaviour

\* --------------------------------------------------------- program values
Threads == {"T1", "T2"}
Mounts == {5}
MountIds == Mounts \cup {0}

SYSCALL_NONE == "SYSCALL_NONE"
SYSCALL_RMDIR == "SYSCALL_RMDIR"
SYSCALL_UNLINK == "SYSCALL_UNLINK"

EVENT_RMDIR == "EVENT_RMDIR"
EVENT_UNLINK == "EVENT_UNLINK"
\* the literal 0 passed to resolve_dentry when no filter is active
EVENT_ZERO == "0"
EventKinds == {EVENT_RMDIR, EVENT_UNLINK}

NO_FILTER == "NO_FILTER"
ACCEPT == "ACCEPT"
PolicyModes == {NO_FILTER, ACCEPT}

DENTRY_OK == "DENTRY_OK"
DENTRY_DISCARDED == "DENTRY_DISCARDED"
DentryResults == {DENTRY_OK, DENTRY_DISCARDED}

EPERM == 1
ENOENT == 2
EACCES == 13
Retvals == {0, 0 - EACCES, 0 - ENOENT}

\* the directory entries the kernel may hand to the hook: inode numbers are
\* never 0, and each entry has its own overlay depth and path id
Dentries ==
  { [ino |-> 100, numlower |-> 0, path_id |-> 1],
    [ino |-> 200, numlower |-> 2, path_id |-> 3] }

\* ------------------------------------------------------------------ state
VARIABLES
  syscalls,             \* per-thread syscall cache: the pending SyscallState
  discarder_revisions,  \* per-mount revision counters
  enabled_events,       \* the event kinds switched on for emission
  emitted_revision,     \* per mount: the revision its latest event carried
  nops,                 \* deletion syscalls entered so far
  track,                \* per thread: history of the syscall it is executing
  last                  \* report of the probe that ran last

vars == <<syscalls, discarder_revisions, enabled_events, emitted_revision,
          nops, track, last>>

NoPathKey == [mount_id |-> 0, ino |-> 0, path_id |-> 0]

NoSyscall ==
  [type |-> SYSCALL_NONE, mode |-> NO_FILTER, path_key |-> NoPathKey,
   overlay_numlower |-> 0]

\* history of a thread that executes no deletion syscall
Idle ==
  [active |-> FALSE, type |-> SYSCALL_NONE, hooked |-> FALSE, evals |-> 0,
   writes |-> 0, invals |-> 0, resolves |-> 0, discard |-> "none",
   frozen |-> NoPathKey, depth |-> 0]

Report(probe, t, pre, retval, sent, invalidated, resolved) ==
  [probe |-> probe, tid |-> t, pre |-> pre, track |-> track[t],
   retval |-> retval, sent |-> sent, invalidated |-> invalidated,
   resolved |-> resolved, rev_before |-> discarder_revisions]

\* ----------------------------------------------------- syscall registry
peek_syscall(t, mask) ==
  IF syscalls[t].type \in mask THEN syscalls[t] ELSE NoSyscall

pop_syscall(t, mask) ==
  IF syscalls[t].type \in mask
    THEN [syscalls EXCEPT ![t] = NoSyscall]
    ELSE syscalls

\* create fails if a state is already pending on the thread
cache_syscall(t, type, mode) ==
  IF syscalls[t].type # SYSCALL_NONE
    THEN syscalls
    ELSE [syscalls EXCEPT
           ![t] = [type |-> type, mode |-> mode, path_key |-> NoPathKey,
                   overlay_numlower |-> 0]]

\* ----------------------------------------------------------- collaborators
invalidate_inode(log, mount_id, ino, flag) ==
  Append(log, [mount_id |-> mount_id, ino |-> ino, flag |-> flag])

resolve_dentry(log, key, event_type) ==
  Append(log, [key |-> key, event_type |-> event_type])

send_event(log, type, event) ==
  Append(log, [type |-> type, event |-> event])

is_event_enabled(kind) == kind \in enabled_events

\* the answers discarded_by_process may give: with no active filter nothing
\* is discarded, otherwise the discarders of the process decide
discarded_by_process(mode, event_type) ==
  IF mode = NO_FILTER THEN {FALSE} ELSE BOOLEAN

IS_UNHANDLED_ERROR(retval) ==
  retval < 0 /\ retval # 0 - EACCES /\ retval # 0 - EPERM

\* atomic increment of the mount's counter; the new value is returned (the
\* counter is a u32: no behaviour of MaxOps syscalls comes near its wrap)
bump_discarder_revision(mount_id) ==
  discarder_revisions[mount_id] + 1

\* ------------------------------------------------------------------- Init
Init ==
  /\ syscalls = [t \in Threads |-> NoSyscall]
  /\ discarder_revisions = [m \in MountIds |-> 0]
  /\ enabled_events \in SUBSET EventKinds
  /\ emitted_revision = [m \in MountIds |-> 0]
  /\ nops = 0
  /\ track = [t \in Threads |-> Idle]
  /\ last = [probe |-> "none", tid |-> "none", pre |-> NoSyscall,
             track |-> Idle, retval |-> 0, sent |-> << >>,
             invalidated |-> << >>, resolved |-> << >>,
             rev_before |-> [m \in MountIds |-> 0]]

\* ------------------------------------------------------------ Entry probe
Enter(t, type, mode) ==
  /\ ~track[t].active
  /\ nops < MaxOps
  /\ syscalls' = cache_syscall(t, type, mode)
  /\ nops' = nops + 1
  /\ track' = [track EXCEPT ![t] = [Idle EXCEPT !.active = TRUE,
                                                !.type = type]]
  /\ last' = Report("entry", t, syscalls[t], 0, << >>, << >>, << >>)
  /\ UNCHANGED <<discarder_revisions, enabled_events, emitted_revision>>

\* faulty variant: the entry probe does not cache the syscall
rmdir_kprobe_uncached(t, mode) ==
  /\ ~track[t].active
  /\ nops < MaxOps
  /\ nops' = nops + 1
  /\ track' = [track EXCEPT ![t] = [Idle EXCEPT !.active = TRUE,
                                                !.type = SYSCALL_RMDIR]]
  /\ last' = Report("entry", t, syscalls[t], 0, << >>, << >>, << >>)
  /\ UNCHANGED <<syscalls, discarder_revisions, enabled_events,
                 emitted_revision>>

\* SYSCALL_KPROBE0(rmdir)
rmdir_kprobe(t, mode) == Enter(t, SYSCALL_RMDIR, mode)

\* the entry probe of the unlink syscall
unlink_kprobe(t, mode) == Enter(t, SYSCALL_UNLINK, mode)

\* kprobe/mnt_want_write: resolves the mount id of the pending path_key
\* before the hook is reached
mnt_want_write(t, mount_id) ==
  /\ track[t].active
  /\ ~track[t].hooked
  /\ syscalls[t].type # SYSCALL_NONE
  /\ syscalls[t].path_key.mount_id = 0
  /\ syscalls' = [syscalls EXCEPT ![t].path_key.mount_id = mount_id]
  /\ last' = Report("mnt_want_write", t, syscalls[t], 0, << >>, << >>, << >>)
  /\ UNCHANGED <<discarder_revisions, enabled_events, emitted_revision,
                 nops, track>>

\* --------------------------------------- kprobe/security_inode_rmdir
TrackedKinds == {SYSCALL_RMDIR, SYSCALL_UNLINK}

\* faulty variant: the test of the cached syscall is missing
not_tracked_unchecked(syscall) == FALSE

\* if (!syscall) return 0;
not_tracked(syscall) == syscall.type = SYSCALL_NONE

\* switch (syscall->type): the event type of each kind
event_type_of(type) ==
  IF type = SYSCALL_RMDIR THEN EVENT_RMDIR ELSE EVENT_UNLINK

\* faulty variant: the sentinel check is missing
already_resolved_unchecked(syscall) == FALSE

\* if (syscall->rmdir.path_key.ino) return 0;
already_resolved(syscall) == syscall.path_key.ino # 0

\* faulty variant: the inode of the dentry is not written to the key
resolve_identity_noino(syscall, dentry) ==
  [syscall EXCEPT !.path_key.path_id = dentry.path_id,
                  !.overlay_numlower = dentry.numlower]

\* set_path_key_inode and get_overlay_numlower; the mount id stays as
\* mnt_want_write left it
resolve_identity(syscall, dentry) ==
  [syscall EXCEPT !.path_key.ino = dentry.ino,
                  !.path_key.path_id = dentry.path_id,
                  !.overlay_numlower = dentry.numlower]

\* faulty variant: the event type is passed whatever the policy mode is
effective_event_type_always(mode, event_type) == event_type

\* syscall->policy.mode != NO_FILTER ? event_type : 0
effective_event_type(mode, event_type) ==
  IF mode # NO_FILTER THEN event_type ELSE EVENT_ZERO

\* the syscall table after the discard branch of discarded_by_process
process_discard_syscalls(t, resolved) ==
  [syscalls EXCEPT ![t] = resolved]

\* faulty variant: the state is not popped when the dentry is discarded
dentry_result_syscalls_kept(t, resolved, ret) ==
  [syscalls EXCEPT ![t] = resolved]

\* the syscall table after resolve_dentry returned ret
dentry_result_syscalls(t, resolved, ret) ==
  IF ret = DENTRY_DISCARDED
    THEN pop_syscall(t, {resolved.type})
    ELSE [syscalls EXCEPT ![t] = resolved]

\* the invalidations of the hook after resolve_dentry returned ret
dentry_result_invalidations(key, ret) ==
  IF ret = DENTRY_DISCARDED
    THEN invalidate_inode(<< >>, key.mount_id, key.ino, 1)
    ELSE << >>

\* faulty variant: the path is resolved before the answer of the filter is
\* looked at
hook_filtered_resolving(t, syscall, resolved, noted, discarded) ==
  LET key == resolved.path_key
      res == resolve_dentry(<< >>, key,
               IF syscall.mode # NO_FILTER
                 THEN (IF syscall.type = SYSCALL_RMDIR
                         THEN EVENT_RMDIR ELSE EVENT_UNLINK)
                 ELSE EVENT_ZERO)
      inv == invalidate_inode(<< >>, key.mount_id, key.ino, 1)
  IN IF discarded
       THEN /\ syscalls' = [syscalls EXCEPT ![t] = resolved]
            /\ track' = [track EXCEPT
                 ![t] = [noted EXCEPT !.discard = "process",
                                      !.resolves = @ + Len(res),
                                      !.invals = @ + Len(inv)]]
            /\ last' = Report("hook", t, syscall, 0, << >>, inv, res)
       ELSE \E ret \in DentryResults :
            /\ syscalls' = [syscalls EXCEPT
                 ![t] = IF ret = DENTRY_DISCARDED
                          THEN NoSyscall ELSE resolved]
            /\ track' = [track EXCEPT
                 ![t] = [noted EXCEPT
                   !.discard = IF ret = DENTRY_DISCARDED
                                 THEN "dentry" ELSE "none",
                   !.resolves = @ + Len(res),
                   !.invals = @ + (IF ret = DENTRY_DISCARDED
                                     THEN 1 ELSE 0)]]
            /\ last' = Report("hook", t, syscall, 0, << >>,
                 IF ret = DENTRY_DISCARDED THEN inv ELSE << >>, res)

\* the hook's steps once discarded_by_process has answered
hook_filtered(t, syscall, resolved, noted, discarded) ==
  LET key == resolved.path_key
      event_type == event_type_of(syscall.type)
  IN IF discarded
       THEN LET inv == invalidate_inode(<< >>, key.mount_id, key.ino, 1)
            IN /\ syscalls' = process_discard_syscalls(t, resolved)
               /\ track' = [track EXCEPT
                    ![t] = [noted EXCEPT !.discard = "process",
                                         !.invals = @ + Len(inv)]]
               /\ last' = Report("hook", t, syscall, 0, << >>, inv, << >>)
       ELSE \E ret \in DentryResults :
            LET res == resolve_dentry(<< >>, key,
                         effective_event_type(syscall.mode, event_type))
                inv == dentry_result_invalidations(key, ret)
            IN /\ syscalls' = dentry_result_syscalls(t, resolved, ret)
               /\ track' = [track EXCEPT
                    ![t] = [noted EXCEPT
                      !.discard = IF ret = DENTRY_DISCARDED
                                    THEN "dentry" ELSE "none",
                      !.resolves = @ + Len(res),
                      !.invals = @ + Len(inv)]]
               /\ last' = Report("hook", t, syscall, 0, << >>, inv, res)

\* dentry is the hook's second argument; the answers of discarded_by_process
\* and of resolve_dentry are drawn where the hook asks for them
security_inode_rmdir(t) ==
  /\ track[t].active
  /\ LET syscall == peek_syscall(t, TrackedKinds)
         counted == [track[t] EXCEPT !.hooked = TRUE]
     IN IF not_tracked(syscall) \/ already_resolved(syscall)
          THEN /\ track' = [track EXCEPT ![t] = counted]
               /\ last' = Report("hook", t, syscall, 0, << >>, << >>, << >>)
               /\ UNCHANGED syscalls
          ELSE \* the kernel calls mnt_want_write before it reaches the hook
               /\ syscall.path_key.mount_id # 0
               /\ \E dentry \in Dentries,
                     discarded \in discarded_by_process(syscall.mode,
                                     event_type_of(syscall.type)) :
                    LET resolved == resolve_identity(syscall, dentry)
                        noted == [counted EXCEPT
                                   !.evals = @ + 1, !.writes = @ + 1,
                                   !.frozen = resolved.path_key,
                                   !.depth = resolved.overlay_numlower]
                    IN hook_filtered(t, syscall, resolved, noted, discarded)
  /\ UNCHANGED <<discarder_revisions, enabled_events, emitted_revision, nops>>

\* ------------------------------------------------- SYSCALL_KRETPROBE(rmdir)
\* faulty variant: the inode field is filled from path_id
rmdir_event_misfilled(syscall, retval, revision) ==
  [retval |-> retval,
   inode |-> syscall.path_key.path_id,
   mount_id |-> syscall.path_key.mount_id,
   overlay_numlower |-> syscall.overlay_numlower,
   path_id |-> syscall.path_key.path_id,
   discarder_revision |-> revision]

\* struct rmdir_event_t event = { ... }
rmdir_event(syscall, retval, revision) ==
  [retval |-> retval,
   inode |-> syscall.path_key.ino,
   mount_id |-> syscall.path_key.mount_id,
   overlay_numlower |-> syscall.overlay_numlower,
   path_id |-> syscall.path_key.path_id,
   discarder_revision |-> revision]

\* faulty variant: the exit probe reads the switch of the unlink event
kret_event_type_unlink == EVENT_UNLINK

\* the event kind whose switch the exit probe reads
kret_event_type == EVENT_RMDIR

\* faulty variant: the flag is enabled instead of !enabled
kret_invalidate_flag_plain(enabled) == IF enabled THEN 1 ELSE 0

\* the last argument of the closing invalidate_inode: !enabled
kret_invalidate_flag(enabled) == IF enabled THEN 0 ELSE 1

\* faulty variant: the pop is not limited to the slot of the thread
kret_syscalls_all(t) == [u \in Threads |-> NoSyscall]

\* faulty variant: the exit probe peeks instead of popping
kret_syscalls_peeked(t) == syscalls

\* the syscall table after pop_syscall(SYSCALL_RMDIR | SYSCALL_UNLINK)
kret_syscalls(t) == pop_syscall(t, TrackedKinds)

\* faulty variant: the revision is bumped outside the if (enabled) block
kret_revisions_always(mount_id, enabled) ==
  [discarder_revisions EXCEPT ![mount_id] = bump_discarder_revision(mount_id)]

\* faulty variant: the counter is decremented instead of incremented
kret_revisions_down(mount_id, enabled) ==
  IF enabled
    THEN [discarder_revisions EXCEPT ![mount_id] = @ - 1]
    ELSE discarder_revisions

\* the revision counters after the exit probe handled a return code that is
\* no unhandled error
kret_revisions(mount_id, enabled) ==
  IF enabled
    THEN [discarder_revisions EXCEPT
           ![mount_id] = bump_discarder_revision(mount_id)]
    ELSE discarder_revisions

\* faulty variant: the test of enabled is inverted
kret_events_inverted(syscall, retval, enabled) ==
  IF ~enabled
    THEN send_event(<< >>, EVENT_RMDIR,
           [retval |-> retval, inode |-> syscall.path_key.ino,
            mount_id |-> syscall.path_key.mount_id,
            overlay_numlower |-> syscall.overlay_numlower,
            path_id |-> syscall.path_key.path_id,
            discarder_revision |->
              bump_discarder_revision(syscall.path_key.mount_id)])
    ELSE << >>

\* the events the exit probe sends for a return code that is no unhandled
\* error
kret_events(syscall, retval, enabled) ==
  IF enabled
    THEN send_event(<< >>, kret_event_type,
           rmdir_event(syscall, retval,
                       bump_discarder_revision(syscall.path_key.mount_id)))
    ELSE << >>

\* faulty variant: the error branch passes 1 as the flag
kret_error_invalidations_flagged(syscall) ==
  invalidate_inode(<< >>, syscall.path_key.mount_id, syscall.path_key.ino, 1)

\* the invalidations of the exit probe on an unhandled error
kret_error_invalidations(syscall) ==
  invalidate_inode(<< >>, syscall.path_key.mount_id, syscall.path_key.ino, 0)

\* the revisions the mounts' latest events carried, after the events of sent
Emitted(sent) ==
  [m \in MountIds |->
     IF \E i \in 1..Len(sent) : sent[i].event.mount_id = m
       THEN sent[CHOOSE i \in 1..Len(sent) :
                   /\ sent[i].event.mount_id = m
                   /\ \A j \in (i + 1)..Len(sent) :
                        sent[j].event.mount_id # m].event.discarder_revision
       ELSE emitted_revision[m]]

rmdir_kretprobe(t, retval) ==
  /\ track[t].active
  \* the kernel returns success only after it called the hook
  /\ retval = 0 => track[t].hooked
  /\ LET syscall == peek_syscall(t, TrackedKinds)
         enabled == is_event_enabled(kret_event_type)
     IN /\ syscalls' = kret_syscalls(t)
        /\ track' = [track EXCEPT ![t] = Idle]
        /\ IF not_tracked(syscall)
             THEN /\ last' = Report("exit", t, syscall, retval, << >>, << >>,
                                    << >>)
                  /\ UNCHANGED <<discarder_revisions, emitted_revision>>
           ELSE IF IS_UNHANDLED_ERROR(retval)
             THEN /\ last' = Report("exit", t, syscall, retval, << >>,
                                    kret_error_invalidations(syscall), << >>)
                  /\ UNCHANGED <<discarder_revisions, emitted_revision>>
           ELSE LET sent == kret_events(syscall, retval, enabled)
                IN /\ discarder_revisions' =
                        kret_revisions(syscall.path_key.mount_id, enabled)
                   /\ emitted_revision' = Emitted(sent)
                   /\ last' = Report("exit", t, syscall, retval, sent,
                        invalidate_inode(<< >>, syscall.path_key.mount_id,
                                         syscall.path_key.ino,
                                         kret_invalidate_flag(enabled)),
                        << >>)
  /\ UNCHANGED <<enabled_events, nops>>

\* ------------------------------------------------------------------- Next
Next ==
  \/ \E t \in Threads, mode \in PolicyModes : rmdir_kprobe(t, mode)
  \/ \E t \in Threads, mode \in PolicyModes : unlink_kprobe(t, mode)
  \/ \E t \in Threads, m \in Mounts : mnt_want_write(t, m)
  \/ \E t \in Threads : security_inode_rmdir(t)
  \/ \E t \in Threads, retval \in Retvals : rmdir_kretprobe(t, retval)

Spec == Init /\ [][Next]_vars

\* the syscall return step of a thread is taken: every syscall returns
FairSpec ==
  Spec /\ \A t \in Threads :
            WF_vars(\E retval \in Retvals : rmdir_kretprobe(t, retval))

\* ===================================================================
\* Properties.  last is the report of the step that led to the state: while
\* last.probe names a probe, the state is the one that probe left, last.pre
\* is the SyscallState it found and last.track the history of the syscall
\* before the step.
\* ===================================================================
ExitRan == last.probe = "exit"
HookRan == last.probe = "hook"
Found == last.pre.type # SYSCALL_NONE
Handled == ~IS_UNHANDLED_ERROR(last.retval)
InvalidationOf(syscall, flag) ==
  [mount_id |-> syscall.path_key.mount_id, ino |-> syscall.path_key.ino,
   flag |-> flag]

\* C1: exactly-once emission.  An Exit probe that finds the state of a
\* deletion whose identity was resolved and that neither the discard filter
\* nor path resolution discarded, with a return code that is no unhandled
\* error and the directory-removal event kind enabled, sends exactly one
\* event; no probe sends more than one event, and only the Exit probe sends.
C1_ExactlyOnceEmission ==
  /\ ( /\ ExitRan /\ Found
       /\ last.track.writes > 0
       /\ last.track.discard = "none"
       /\ Handled
       /\ EVENT_RMDIR \in enabled_events )
     => Len(last.sent) = 1
  /\ Len(last.sent) <= 1
  /\ ~ExitRan => last.sent = << >>

C1_Witness ==
  /\ ExitRan /\ Found /\ Handled
  /\ last.track.hooked
  /\ last.track.discard = "none"
  /\ EVENT_RMDIR \in enabled_events
  /\ Len(last.sent) = 1

\* C2: policy discard ends tracking.  An Exit probe that follows a discard
\* by the discard filter finds no pending state and sends nothing, and the
\* operation invalidated the inode cache exactly once.
C2_PolicyDiscardEndsTracking ==
  (ExitRan /\ last.track.discard = "process")
    => /\ ~Found
       /\ last.sent = << >>
       /\ last.track.invals + Len(last.invalidated) = 1

\* C3: path-resolution discard short-circuits exit.  The hook step in which
\* resolve_dentry answers DENTRY_DISCARDED invalidates the frozen identity
\* and removes the state; the Exit probe that follows finds none, sends
\* nothing, bumps nothing and invalidates nothing: one invalidation in all.
C3_PathDiscardShortCircuits ==
  /\ ( /\ HookRan
       /\ last.track.discard = "none"
       /\ track[last.tid].discard = "dentry" )
     => /\ last.invalidated =
             << [mount_id |-> track[last.tid].frozen.mount_id,
                 ino |-> track[last.tid].frozen.ino, flag |-> 1] >>
        /\ track[last.tid].frozen.ino # 0
        /\ syscalls[last.tid] = NoSyscall
  /\ \A t \in Threads :
       track[t].discard = "dentry"
         => syscalls[t] = NoSyscall /\ track[t].invals = 1
  /\ (ExitRan /\ last.track.discard = "dentry")
     => /\ ~Found
        /\ last.sent = << >>
        /\ last.invalidated = << >>
        /\ discarder_revisions = last.rev_before
        /\ last.track.invals = 1

C3_Witness ==
  /\ ExitRan
  /\ last.track.discard = "dentry"
  /\ last.retval = 0
  /\ EVENT_RMDIR \in enabled_events

\* C4: error suppresses emission.  An Exit probe that finds a pending state
\* and reads an unhandled error sends no event, enabled or not, removes the
\* state and invalidates the state's (mount_id, inode) once, with flag 0.
C4_ErrorSuppressesEmission ==
  (ExitRan /\ Found /\ ~Handled)
    => /\ last.sent = << >>
       /\ syscalls[last.tid] = NoSyscall
       /\ last.invalidated = << InvalidationOf(last.pre, 0) >>

C4_Witness ==
  /\ ExitRan /\ Found /\ ~Handled
  /\ last.pre.type = SYSCALL_UNLINK
  /\ last.pre.path_key.ino = 200
  /\ EVENT_RMDIR \in enabled_events
  /\ last.invalidated # << >>

\* C5: idempotent resolution.  A hook invocation that finds the identity
\* already frozen leaves the state as it is and asks nothing of the discard
\* filter, the inode cache or path resolution; the identity of a state is
\* written at most once, and a pending resolved state holds what the first
\* resolution froze.
C5_IdempotentResolution ==
  /\ (HookRan /\ Found /\ last.pre.path_key.ino # 0)
     => /\ syscalls[last.tid] = last.pre
        /\ last.invalidated = << >>
        /\ last.resolved = << >>
        /\ track[last.tid].evals = last.track.evals
        /\ track[last.tid].writes = last.track.writes
  /\ \A t \in Threads :
       /\ track[t].writes <= 1
       /\ track[t].evals <= 1
       /\ track[t].resolves <= 1
       /\ (syscalls[t].type # SYSCALL_NONE /\ track[t].writes = 1)
          => /\ syscalls[t].path_key = track[t].frozen
             /\ syscalls[t].overlay_numlower = track[t].depth
             /\ syscalls[t].path_key.ino # 0

C5_Witness ==
  /\ HookRan /\ Found
  /\ last.pre.path_key.ino # 0
  /\ last.pre.type = SYSCALL_UNLINK
  /\ last.track.hooked
  /\ last.track.writes = 1

C7_BumpOnEverySuccess ==
  (ExitRan /\ Found /\ last.retval = 0)
    => LET m == last.pre.path_key.mount_id
       IN /\ discarder_revisions[m] = last.rev_before[m] + 1
          /\ \A i \in 1..Len(last.sent) :
               last.sent[i].event.discarder_revision = last.rev_before[m] + 1

\* C7 (amended): the increment by one happens exactly when the
\* directory-removal event kind is enabled, and then one event is sent that
\* carries previous + 1; with the kind disabled every revision stays as it
\* was.  The revisions of the other mounts never change in the step.
C7_BumpOnEnabledSuccess ==
  (ExitRan /\ Found /\ last.retval = 0)
    => LET m == last.pre.path_key.mount_id
       IN /\ \A o \in MountIds \ {m} :
               discarder_revisions[o] = last.rev_before[o]
          /\ IF EVENT_RMDIR \in enabled_events
               THEN /\ discarder_revisions[m] = last.rev_before[m] + 1
                    /\ Len(last.sent) = 1
                    /\ last.sent[1].event.discarder_revision =
                         last.rev_before[m] + 1
                    /\ last.sent[1].event.mount_id = m
               ELSE /\ discarder_revisions[m] = last.rev_before[m]
                    /\ last.sent = << >>

C7_Witness ==
  /\ ExitRan /\ Found /\ last.retval = 0
  /\ last.pre.path_key.mount_id = 5
  /\ last.rev_before[5] = 1
  /\ discarder_revisions[5] = 2
  /\ last.sent # << >>

C9_NoLeak ==
  /\ \A t \in Threads :
       (syscalls[t].type # SYSCALL_NONE) ~> (syscalls[t].type = SYSCALL_NONE)
  /\ [](ExitRan => syscalls[last.tid] = NoSyscall)

C9_Witness ==
  /\ ExitRan /\ Found
  /\ syscalls[last.tid] = NoSyscall
  /\ last.track.discard = "none"

\* C10 (as claimed): an Exit probe of a syscall whose hook never fired finds
\* no pending state and does nothing: no event, no bump, no invalidation.
C10_NeverResolvedIsNoOp ==
  (ExitRan /\ ~last.track.hooked)
    => /\ ~Found
       /\ last.sent = << >>
       /\ discarder_revisions = last.rev_before
       /\ last.invalidated = << >>

\* C10 (amended): an Exit probe of a syscall whose hook never fired finds
\* the state the Entry probe created, its identity still at the sentinel
\* inode 0, and removes it; it invalidates the sentinel identity once, and
\* it sends an event (inode 0) and bumps the revision exactly when the
\* return code is no unhandled error and the directory-removal event kind
\* is enabled.
C10_NeverResolvedIsPopped ==
  (ExitRan /\ ~last.track.hooked)
    => /\ Found
       /\ last.pre.path_key.ino = 0
       /\ syscalls[last.tid] = NoSyscall
       /\ Len(last.invalidated) = 1
       /\ last.invalidated[1].ino = 0
       /\ last.invalidated[1].mount_id = last.pre.path_key.mount_id
       /\ IF Handled /\ EVENT_RMDIR \in enabled_events
            THEN /\ Len(last.sent) = 1
                 /\ last.sent[1].event.inode = 0
                 /\ discarder_revisions # last.rev_before
            ELSE /\ last.sent = << >>
                 /\ discarder_revisions = last.rev_before

C10_Witness ==
  /\ ExitRan /\ Found
  /\ ~last.track.hooked
  /\ last.pre.path_key.ino = 0
  /\ Len(last.sent) = 1
  /\ Len(last.invalidated) = 1

\* C11: untracked syscall is a silent no-op.  A hook or exit invocation on
\* a thread that holds no pending state changes no SyscallState of any
\* thread, no revision, and sends, invalidates and resolves nothing.
C11_UntrackedIsNoOp ==
  [][ ( /\ last'.probe \in {"hook", "exit"}
        /\ syscalls[last'.tid].type = SYSCALL_NONE )
      => /\ syscalls' = syscalls
         /\ discarder_revisions' = discarder_revisions
         /\ emitted_revision' = emitted_revision
         /\ last'.sent = << >>
         /\ last'.invalidated = << >>
         /\ last'.resolved = << >> ]_vars

C11_Witness ==
  /\ ExitRan /\ ~Found
  /\ last.retval = 0
  /\ EVENT_RMDIR \in enabled_events
  /\ \E u \in Threads \ {last.tid} : syscalls[u].type # SYSCALL_NONE

C13_PerThreadIsolation ==
  [][ last'.probe \in {"entry", "mnt_want_write", "hook", "exit"}
      => LET t == last'.tid
         IN /\ last'.pre = syscalls[t]
            /\ \A u \in Threads \ {t} :
                 syscalls'[u] = syscalls[u] /\ track'[u] = track[u]
            /\ \A i \in 1..Len(last'.sent) :
                 /\ last'.sent[i].event.inode = syscalls[t].path_key.ino
                 /\ last'.sent[i].event.mount_id =
                      syscalls[t].path_key.mount_id
                 /\ last'.sent[i].event.path_id =
                      syscalls[t].path_key.path_id ]_vars

C13_Witness ==
  /\ ExitRan /\ Found
  /\ Len(last.sent) = 1
  /\ last.sent[1].event.mount_id = 5
  /\ \E u \in Threads \ {last.tid} :
       /\ syscalls[u].type # SYSCALL_NONE
       /\ syscalls[u].path_key.mount_id = 5
       /\ syscalls[u].path_key.ino # 0
       /\ syscalls[u].path_key.ino # last.pre.path_key.ino

\* C14: single terminal outcome.  An instance the hook discarded, by policy
\* or by path resolution, produces neither an event nor an error-drop in
\* the exit probe, and the identity of a state the hook resolved never
\* returns to the sentinel while the state exists.
C14_SingleTerminalOutcome ==
  /\ (ExitRan /\ last.track.discard # "none")
       => /\ last.sent = << >>
          /\ ~(Found /\ IS_UNHANDLED_ERROR(last.retval))
  /\ \A t \in Threads :
       (syscalls[t].type # SYSCALL_NONE /\ track[t].writes > 0)
         => syscalls[t].path_key.ino # 0

\* C15: policy discard stops processing in the hook.  The hook step in which
\* the discard filter answers "discarded" invalidates the identity it just
\* froze and resolves no path; a hook step that resolves a path is one whose
\* operation the filter did not discard.
C15_PolicyDiscardStopsHook ==
  /\ ( /\ HookRan
       /\ last.track.discard = "none"
       /\ track[last.tid].discard = "process" )
       => /\ Len(last.invalidated) = 1
          /\ last.invalidated[1].mount_id = track[last.tid].frozen.mount_id
          /\ last.invalidated[1].ino = track[last.tid].frozen.ino
          /\ last.invalidated[1].ino # 0
          /\ last.resolved = << >>
          /\ syscalls[last.tid].path_key = track[last.tid].frozen
  /\ (HookRan /\ last.resolved # << >>)
       => track[last.tid].discard # "process"
  /\ \A t \in Threads :
       track[t].discard = "process" => track[t].resolves = 0

C15_Witness ==
  /\ HookRan /\ Found
  /\ last.pre.mode = ACCEPT
  /\ last.track.discard = "none"
  /\ track[last.tid].discard = "process"
  /\ Len(last.invalidated) = 1
  /\ last.invalidated[1].ino = 200
  /\ last.resolved = << >>

\* C16: effective event kind for path resolution.  Whenever the hook
\* triggers path resolution it passes the identity it just froze and the
\* event kind zero when the policy mode of the state is NO_FILTER, else the
\* rmdir event for a state of kind rmdir and the unlink event for a state
\* of kind unlink.
C16_EffectiveEventKind ==
  (HookRan /\ last.resolved # << >>)
    => /\ Len(last.resolved) = 1
       /\ last.resolved[1].key = track[last.tid].frozen
       /\ last.resolved[1].key.ino # 0
       /\ last.resolved[1].key.mount_id = last.pre.path_key.mount_id
       /\ last.pre.mode = NO_FILTER
            => last.resolved[1].event_type = EVENT_ZERO
       /\ (last.pre.mode # NO_FILTER /\ last.pre.type = SYSCALL_RMDIR)
            => last.resolved[1].event_type = EVENT_RMDIR
       /\ (last.pre.mode # NO_FILTER /\ last.pre.type = SYSCALL_UNLINK)
            => last.resolved[1].event_type = EVENT_UNLINK

C16_Witness ==
  /\ HookRan
  /\ Len(last.resolved) = 1
  /\ last.pre.type = SYSCALL_UNLINK
  /\ last.pre.mode = NO_FILTER
  /\ last.resolved[1].event_type = EVENT_ZERO
  /\ last.resolved[1].key.ino = 100

\* C17 (as stated): event kind consistency.  The event kind the exit probe
\* checks and sends under is the kind the hook derived from the kind of the
\* state: a state of kind unlink is never checked or sent as an rmdir event.
C17_ExitKindIsHookKind ==
  (ExitRan /\ Found /\ Handled)
    => /\ last.sent # << >>
            <=> is_event_enabled(event_type_of(last.pre.type))
       /\ \A i \in 1..Len(last.sent) :
            last.sent[i].type = event_type_of(last.pre.type)

\* C17 (amended): the event kind the exit probe checks and sends under is
\* the rmdir event for a state of either kind; it is the kind the hook
\* derived exactly when the state is of kind rmdir, and a state of kind
\* unlink is checked and sent as an rmdir event, never as an unlink event.
C17_ExitKindIsRmdir ==
  (ExitRan /\ Found /\ Handled)
    => /\ last.sent # << >> <=> EVENT_RMDIR \in enabled_events
       /\ \A i \in 1..Len(last.sent) :
            /\ last.sent[i].type = EVENT_RMDIR
            /\ last.sent[i].type = event_type_of(last.pre.type)
                 <=> last.pre.type = SYSCALL_RMDIR

C17_Witness ==
  /\ ExitRan /\ Found /\ Handled
  /\ last.pre.type = SYSCALL_UNLINK
  /\ last.track.writes = 1
  /\ enabled_events = {EVENT_RMDIR}
  /\ Len(last.sent) = 1
  /\ last.sent[1].type = EVENT_RMDIR

\* C18 (as stated): no event without a resolved identity.  Every event the
\* exit probe sends and every invalidation it issues carries an inode other
\* than the sentinel 0.
C18_NoEventWithoutIdentity ==
  ExitRan
    => /\ \A i \in 1..Len(last.sent) : last.sent[i].event.inode # 0
       /\ \A i \in 1..Len(last.invalidated) : last.invalidated[i].ino # 0

\* C18 (amended): every event the exit probe sends and every invalidation
\* it issues carries the identity held by the state it popped; that is the
\* identity the hook froze (inode other than 0) exactly when the hook ran
\* for the syscall, and for a state that never reached the hook the exit
\* probe still invalidates, and sends when enabled, with inode 0.
C18_ExitUsesHeldIdentity ==
  (ExitRan /\ Found)
    => /\ \A i \in 1..Len(last.sent) :
            /\ last.sent[i].event.inode = last.pre.path_key.ino
            /\ last.sent[i].event.mount_id = last.pre.path_key.mount_id
       /\ Len(last.invalidated) = 1
       /\ last.invalidated[1].ino = last.pre.path_key.ino
       /\ last.invalidated[1].mount_id = last.pre.path_key.mount_id
       /\ last.pre.path_key.ino # 0 <=> last.track.hooked
       /\ last.track.hooked => last.pre.path_key = last.track.frozen
       /\ (~last.track.hooked /\ Handled /\ EVENT_RMDIR \in enabled_events)
            => Len(last.sent) = 1

C18_Witness ==
  /\ ExitRan /\ Found
  /\ ~last.track.hooked
  /\ last.retval = 0 - EACCES
  /\ last.pre.path_key.mount_id = 0
  /\ Len(last.sent) = 1
  /\ last.sent[1].event.inode = 0
  /\ last.invalidated = << [mount_id |-> 0, ino |-> 0, flag |-> 0] >>

\* C19: the revision bump is tied to emission.  A step changes the revision
\* of a mount only if it is an exit step that sends one event for that mount
\* carrying the new value, one more than before; every event sent comes
\* with such a bump; so the revision of a mount counts the events sent for
\* it and equals the revision of the last of them.
C19_BumpTiedToEmission ==
  /\ \A m \in MountIds :
       discarder_revisions[m] # last.rev_before[m]
         => /\ ExitRan /\ Found /\ Handled
            /\ EVENT_RMDIR \in enabled_events
            /\ Len(last.sent) = 1
            /\ last.sent[1].event.mount_id = m
            /\ last.sent[1].event.discarder_revision =
                 discarder_revisions[m]
            /\ discarder_revisions[m] = last.rev_before[m] + 1
  /\ \A i \in 1..Len(last.sent) :
       LET m == last.sent[i].event.mount_id
       IN discarder_revisions[m] = last.rev_before[m] + 1
  /\ discarder_revisions = emitted_revision

C19_Witness ==
  /\ ExitRan /\ Found /\ Handled
  /\ last.pre.path_key.mount_id = 5
  /\ Len(last.sent) = 1
  /\ last.sent[1].event.mount_id = 5
  /\ discarder_revisions[5] = last.rev_before[5] + 1
  /\ discarder_revisions[0] = last.rev_before[0]
  /\ emitted_revision[5] = discarder_revisions[5]

====
